---- MODULE Spec2Model ----
(***************************************************************************)
(* Model of the HTTP driver of libsql-client-go                            *)
(* (libsql/internal/http/driver.go): the connection, the parameter         *)
(* normaliser convertArgs, the result summary and the row cursor.          *)
(***************************************************************************)
EXTENDS Integers, Sequences, FiniteSets, TLC

(***************************************************************************)
(* Bounds of the model.                                                    *)
(***************************************************************************)
\* float64 values are modelled in sign-magnitude form, in units of 1/Scale
Scale == 100
\* rows of a result set in the cursor specification
MaxRows == 2
\* Next calls the model makes on one cursor after it has reached its end
MaxPastEnd == 2
\* arguments of one convertArgs call
MaxArgs == 3
\* ordinals run over 1..MaxOrdinal
MaxOrdinal == 3
\* RPCs the remote service receives
MaxRpc == 2

(***************************************************************************)
(* driver.Value: the wire / cell values.  Every value is a record of the   *)
(* same shape; k is the dynamic type the type switch of rows.Next sees.    *)
(*   float64: cls is "fin" (sign neg, magnitude n/Scale), "nan" or "inf".  *)
(***************************************************************************)
Nil == [k |-> "nil", n |-> 0, neg |-> FALSE, cls |-> "", s |-> "", b |-> FALSE]
Int64V(i) == [k |-> "int64", n |-> i, neg |-> FALSE, cls |-> "", s |-> "", b |-> FALSE]
BoolV(x) == [k |-> "bool", n |-> 0, neg |-> FALSE, cls |-> "", s |-> "", b |-> x]
TextV(t) == [k |-> "string", n |-> 0, neg |-> FALSE, cls |-> "", s |-> t, b |-> FALSE]
BytesV(t) == [k |-> "[]byte", n |-> 0, neg |-> FALSE, cls |-> "", s |-> t, b |-> FALSE]
Float64V(sign, mag) == [k |-> "float64", n |-> mag, neg |-> sign, cls |-> "fin", s |-> "", b |-> FALSE]
NaN == [k |-> "float64", n |-> 0, neg |-> FALSE, cls |-> "nan", s |-> "", b |-> FALSE]
Inf(sign) == [k |-> "float64", n |-> 0, neg |-> sign, cls |-> "inf", s |-> "", b |-> FALSE]

\* magnitudes of the finite floats the model feeds in: 0, 0.5, 3.14, 42
FloatMags == {0, Scale \div 2, 3 * Scale + 14, 42 * Scale}
Floats == {Float64V(sg, m) : sg \in BOOLEAN, m \in FloatMags} \cup {NaN, Inf(FALSE), Inf(TRUE)}
NonFloats == {Nil, Int64V(42), Int64V(-7), BoolV(TRUE), TextV("foobar"), BytesV("000102")}
WireValues == Floats \cup NonFloats

(***************************************************************************)
(* float64 arithmetic used by rows.Next.                                   *)
(***************************************************************************)
\* math.Mod(v, 1): NaN for NaN and the infinities, else the remainder of the
\* magnitude with the sign of v (so Mod(-3, 1) is -0 and Mod(-0.5, 1) is -0.5)
MathMod1(v) ==
    IF v.cls = "fin" THEN Float64V(v.neg, v.n % Scale) ELSE NaN

\* the float64 comparison  f >= 0  (false for NaN, true for -0)
GeqZero(f) ==
    CASE f.cls = "nan" -> FALSE
      [] f.cls = "inf" -> ~f.neg
      [] OTHER -> (~f.neg) \/ f.n = 0

\* the conversion int64(v) of a finite float64 in range: the fraction is dropped
ToInt64(v) ==
    Int64V(IF v.neg THEN 0 - (v.n \div Scale) ELSE v.n \div Scale)

\* a faulty variant: keeps the float unless it is a whole number
CoerceWholeOnly(value) ==
    IF value.k = "float64" /\ value.cls = "fin" /\ value.n % Scale = 0
    THEN ToInt64(value)
    ELSE value

\* the type switch of rows.Next on one cell
Coerce(value) ==
    CASE value.k = "int64" -> Int64V(value.n)
      [] value.k = "float64" ->
            IF GeqZero(MathMod1(value)) THEN ToInt64(value) ELSE value
      [] OTHER -> value


(***************************************************************************)
(* resultSet, the decoded RPC response: column names and rows, every row   *)
(* holding one cell per column.                                            *)
(***************************************************************************)
ResultSetOf(columns, rws) == [Columns |-> columns, Rows |-> rws]

\* the answer to the SELECT of TestDataTypes; JSON numbers arrive as float64
DataTypesResult ==
    ResultSetOf(<<"text", "text", "integer", "integer", "boolean", "bytea", "float8", "float8">>,
                << <<TextV("foobar"), Nil, Nil, Float64V(FALSE, 42 * Scale),
                     Float64V(FALSE, Scale), BytesV("000102"),
                     Float64V(FALSE, 3 * Scale + 14), Nil>> >>)

\* one-column result sets with 0..MaxRows rows over all wire values
OneColumnResults ==
    UNION {{ResultSetOf(<<"a">>, [i \in 1..r |-> <<cells[i]>>]) :
              cells \in [1..r -> WireValues]} : r \in 0..MaxRows}

ResultSets == OneColumnResults \cup {DataTypesResult}

(***************************************************************************)
(* State.                                                                  *)
(***************************************************************************)
VARIABLES
    conn,       \* the conn struct: url and jwt
    calls,      \* per caller: the call it is in or has returned from; params is
                \* the request body while the RPC is in flight
    rpcCount,   \* number of callSqld invocations so far
    cursors,    \* the rows structs handed out: result and currentRowIdx
    dest,       \* per cursor: the caller's destination buffer
    cret,       \* the last call on a cursor and what it returned
    nextCalls,  \* per cursor: number of Next calls made
    nextOks,    \* per cursor: number of Next calls that returned nil
    args,       \* the argument list given to convertArgs
    params,     \* the params convertArgs returned
    converted   \* whether convertArgs has run on args

vars == <<conn, calls, rpcCount, cursors, dest, cret, nextCalls, nextOks,
          args, params, converted>>

connVars == <<conn, calls, rpcCount>>
cursorVars == <<cursors, dest, cret, nextCalls, nextOks>>
argVars == <<args, params, converted>>

(***************************************************************************)
(* rows: the row cursor.                                                   *)
(***************************************************************************)
NoReturn == [op |-> "", err |-> "", cols |-> <<>>]
Returned(op, err, cols) == [op |-> op, err |-> err, cols |-> cols]

\* &rows{rs, 0}
NewRows(rs) == [result |-> rs, currentRowIdx |-> 0]

\* the buffer database/sql hands to Next: one slot per column, all nil
NewDest(rs) == [i \in 1..Len(rs.Columns) |-> Nil]

\* a faulty variant: end-of-data is signalled one row early
AtEndEarly(r) == r.currentRowIdx + 1 >= Len(r.result.Rows)

\* r.currentRowIdx == len(r.result.Rows)
AtEnd(r) == r.currentRowIdx = Len(r.result.Rows)

\* the row Next reads: r.result.Rows[r.currentRowIdx] (sequences start at 1)
CurrentRow(r) == r.result.Rows[r.currentRowIdx + 1]

\* the loop of Next: dest[idx] is written for every cell of the row
FillDest(d, row) ==
    [idx \in 1..Len(d) |-> IF idx <= Len(row) THEN Coerce(row[idx]) ELSE d[idx]]

\* a faulty variant: Next on one cursor moves every cursor
AdvanceAll(cs, c) == [i \in 1..Len(cs) |-> [cs[i] EXCEPT !.currentRowIdx = @ + 1]]

\* r.currentRowIdx++ on cursor c
Advance(cs, c) == [cs EXCEPT ![c].currentRowIdx = @ + 1]

RowsNext(c) ==
    /\ c \in 1..Len(cursors)
    /\ nextCalls[c] < Len(cursors[c].result.Rows) + MaxPastEnd
    /\ nextCalls' = [nextCalls EXCEPT ![c] = @ + 1]
    /\ IF AtEnd(cursors[c])
       THEN /\ cret' = Returned("Next", "io.EOF", <<>>)
            /\ UNCHANGED <<cursors, dest, nextOks>>
       ELSE /\ Len(CurrentRow(cursors[c])) <= Len(dest[c])
            /\ dest' = [dest EXCEPT ![c] = FillDest(@, CurrentRow(cursors[c]))]
            /\ cursors' = Advance(cursors, c)
            /\ cret' = Returned("Next", "nil", <<>>)
            /\ nextOks' = [nextOks EXCEPT ![c] = @ + 1]
    /\ UNCHANGED <<connVars, argVars>>

RowsColumns(c) ==
    /\ c \in 1..Len(cursors)
    /\ cret' = Returned("Columns", "", cursors[c].result.Columns)
    /\ UNCHANGED <<cursors, dest, nextCalls, nextOks, connVars, argVars>>

RowsClose(c) ==
    /\ c \in 1..Len(cursors)
    /\ cret' = Returned("Close", "nil", <<>>)
    /\ UNCHANGED <<cursors, dest, nextCalls, nextOks, connVars, argVars>>


(***************************************************************************)
(* convertArgs: the parameter normaliser.                                  *)
(***************************************************************************)
\* driver.NamedValue
NamedValue(ord, name, value) == [Ordinal |-> ord, Name |-> name, Value |-> value]

ArgNames == {"", "a"}
ArgValues == {Int64V(5), TextV("x")}
NamedValues ==
    {NamedValue(o, nm, v) : o \in 1..MaxOrdinal, nm \in ArgNames, v \in ArgValues}
ArgLists == UNION {[1..n -> NamedValues] : n \in 0..MaxArgs}

\* params{}: Names and Values both nil (a nil slice is the empty sequence)
EmptyParams == [Names |-> <<>>, Values |-> <<>>]

\* a faulty variant: the comparison of a descending sort
LessDescending(x, y) == x.Ordinal > y.Ordinal

\* the less function given to sort.Slice
Less(x, y) == x.Ordinal < y.Ordinal

\* a faulty variant: the arguments are emitted in input order
Unsorted(a) == {[i \in 1..Len(a) |-> i]}

\* sort.Slice: the orders it may leave sortedArgs in, as maps from output
\* position to input position.  sort.Slice is not a stable sort, so every
\* order without an inversion under Less is a possible outcome.
SortSlice(a) ==
    {p \in Permutations(1..Len(a)) :
        \A i, j \in 1..Len(a) : i < j => ~Less(a[p[j]], a[p[i]])}

\* the names of the sorted arguments that have one
RECURSIVE NamesOf(_)
NamesOf(sorted) ==
    IF sorted = <<>> THEN <<>>
    ELSE IF Head(sorted).Name # ""          \* len(Name) > 0
         THEN <<Head(sorted).Name>> \o NamesOf(Tail(sorted))
         ELSE NamesOf(Tail(sorted))

\* the second loop of convertArgs over sortedArgs
BuildParams(sorted) ==
    [Names |-> NamesOf(sorted), Values |-> [i \in 1..Len(sorted) |-> sorted[i].Value]]

\* every params value convertArgs(a) may return
ConvertArgs(a) ==
    IF Len(a) = 0 THEN {EmptyParams}
    ELSE {BuildParams([i \in 1..Len(a) |-> a[p[i]]]) : p \in SortSlice(a)}

\* one call of convertArgs on the argument list drawn in InitArgs
CallConvertArgs ==
    /\ ~converted
    /\ converted' = TRUE
    /\ params' \in ConvertArgs(args)
    /\ UNCHANGED <<args, connVars, cursorVars>>


(***************************************************************************)
(* conn: the connection.                                                   *)
(***************************************************************************)
\* the goroutines that use the connection at the same time
Callers == {1, 2}

\* Connect(url, jwt)
Connect(url, jwt) == [url |-> url, jwt |-> jwt]

\* what a call returns: a driver.Result, a driver.Rows, a statement, a
\* transaction, or nil
NilRes == [k |-> "nil", id |-> 0, changes |-> 0, cur |-> 0]
ResultV(id, changes) == [k |-> "result", id |-> id, changes |-> changes, cur |-> 0]
RowsV(c) == [k |-> "rows", id |-> 0, changes |-> 0, cur |-> c]
StmtV == [k |-> "stmt", id |-> 0, changes |-> 0, cur |-> 0]

NoError == "nil"
Canceled == "context.Canceled"
TransportErrors == {"connection refused"}

\* the statements callers send, and the rows each changes at the remote service
Queries == {"INSERT INTO t (a, b) VALUES (?, ?)", "SELECT a FROM t"}
RowsChangedBy(query) == IF query = "SELECT a FROM t" THEN 0 ELSE 1

\* the argument lists callers pass: none, and a positional argument followed
\* by a named one of a lower ordinal
CallArgLists ==
    { <<>>,
      <<NamedValue(2, "", TextV("x")), NamedValue(1, "a", Int64V(5))>> }

\* the result set the remote service answers a statement with
EmptyResult == ResultSetOf(<<>>, <<>>)
RemoteResult(query) ==
    IF query = "SELECT a FROM t"
    THEN ResultSetOf(<<"a">>, << <<Float64V(FALSE, Scale)>> >>)
    ELSE EmptyResult

IdleCall ==
    [pc |-> "idle", op |-> "", query |-> "", params |-> EmptyParams,
     url |-> "", jwt |-> "", ctx |-> "live", rpcs |-> 0, rpcErr |-> NoError,
     res |-> NilRes, err |-> NoError]

\* callSqld(ctx, url, jwt, query, params): what the RPC of call cl may return.
\* A cancelled context makes it fail with the cancellation error; otherwise
\* the remote service answers or the transport fails.
CallSqld(cl) ==
    IF cl.ctx # "live"
    THEN {[rs |-> EmptyResult, err |-> Canceled]}
    ELSE {[rs |-> RemoteResult(cl.query), err |-> NoError]}
         \cup {[rs |-> EmptyResult, err |-> e] : e \in TransportErrors}

\* a faulty variant: the RPC error is replaced by an error of the driver's own
ExecResultWrapped(err) ==
    IF err # NoError THEN [res |-> NilRes, err |-> "libsql: exec failed"]
    ELSE [res |-> ResultV(0, 0), err |-> NoError]

\* what ExecContext returns once callSqld has returned err
ExecResult(err) ==
    IF err # NoError THEN [res |-> NilRes, err |-> err]
    ELSE [res |-> ResultV(0, 0), err |-> NoError]

\* a faulty variant: the cursor is returned even when the RPC failed
QueryResultPartial(err, c) == [res |-> RowsV(c), err |-> err]

\* what QueryContext returns once callSqld has returned err; c is the new cursor
QueryResult(err, c) ==
    IF err # NoError THEN [res |-> NilRes, err |-> err]
    ELSE [res |-> RowsV(c), err |-> NoError]

\* a faulty variant: Prepare hands out a statement
PrepareOk == [res |-> StmtV, err |-> NoError]

\* what Prepare returns
PrepareResult == [res |-> NilRes, err |-> "prepare method not implemented"]

\* what Begin returns
BeginResult == [res |-> NilRes, err |-> "begin method not implemented"]

\* ExecContext and QueryContext up to the point where callSqld blocks: the
\* arguments are normalised and the RPC is issued.  ctxDone says whether the
\* caller's context is already cancelled.
StartCall(p, op, query, a, ctxDone) ==
    /\ calls[p].pc \in {"idle", "done"}
    /\ rpcCount < MaxRpc
    /\ rpcCount' = rpcCount + 1
    /\ \E ps \in ConvertArgs(a) :
          calls' = [calls EXCEPT ![p] =
                       [IdleCall EXCEPT !.pc = "rpc", !.op = op, !.query = query,
                                        !.params = ps,
                                        !.url = conn.url, !.jwt = conn.jwt,
                                        !.ctx = IF ctxDone THEN "cancelled before the call"
                                                ELSE "live",
                                        !.rpcs = 1]]
    /\ UNCHANGED <<conn, cursorVars, argVars>>

ExecContextCall(p) ==
    \E query \in Queries, a \in CallArgLists, ctxDone \in BOOLEAN :
        StartCall(p, "ExecContext", query, a, ctxDone)

\* callers read with QueryContext, as Database.query of the tests does
QueryContextCall(p) ==
    \E a \in CallArgLists, ctxDone \in BOOLEAN :
        StartCall(p, "QueryContext", "SELECT a FROM t", a, ctxDone)

\* the caller cancels the context of its call while the RPC is in flight
CancelContext(p) ==
    /\ calls[p].pc = "rpc"
    /\ calls[p].ctx = "live"
    /\ calls' = [calls EXCEPT ![p].ctx = "cancelled in flight"]
    /\ UNCHANGED <<conn, rpcCount, cursorVars, argVars>>

\* callSqld returns and ExecContext returns to its caller
ExecContextReturn(p) ==
    /\ calls[p].pc = "rpc"
    /\ calls[p].op = "ExecContext"
    /\ \E out \in CallSqld(calls[p]) :
          calls' = [calls EXCEPT ![p].pc = "done", ![p].rpcErr = out.err,
                                 ![p].params = EmptyParams,
                                 ![p].res = ExecResult(out.err).res,
                                 ![p].err = ExecResult(out.err).err]
    /\ UNCHANGED <<conn, rpcCount, cursorVars, argVars>>

\* callSqld returns and QueryContext returns to its caller
QueryContextReturn(p) ==
    /\ calls[p].pc = "rpc"
    /\ calls[p].op = "QueryContext"
    /\ \E out \in CallSqld(calls[p]) :
          LET c == Len(cursors) + 1
              ret == QueryResult(out.err, c)
          IN /\ calls' = [calls EXCEPT ![p].pc = "done", ![p].rpcErr = out.err,
                                       ![p].params = EmptyParams,
                                       ![p].res = ret.res, ![p].err = ret.err]
             /\ IF ret.res.k = "rows"
                THEN /\ cursors' = Append(cursors, NewRows(out.rs))
                     /\ dest' = Append(dest, NewDest(out.rs))
                     /\ cret' = cret
                     /\ nextCalls' = Append(nextCalls, 0)
                     /\ nextOks' = Append(nextOks, 0)
                ELSE UNCHANGED cursorVars
    /\ UNCHANGED <<conn, rpcCount, argVars>>

\* a call that returns at once: Prepare, Begin or Close
ReturnAtOnce(p, op, query, ret) ==
    /\ calls[p].pc \in {"idle", "done"}
    /\ calls' = [calls EXCEPT ![p] =
                    [IdleCall EXCEPT !.pc = "done", !.op = op, !.query = query,
                                     !.res = ret.res, !.err = ret.err]]
    /\ UNCHANGED <<conn, rpcCount, cursorVars, argVars>>

Prepare(p) ==
    \E query \in Queries : ReturnAtOnce(p, "Prepare", query, PrepareResult)

Begin(p) == ReturnAtOnce(p, "Begin", "", BeginResult)

ConnClose(p) == ReturnAtOnce(p, "Close", "", [res |-> NilRes, err |-> NoError])


(***************************************************************************)
(* Specifications.                                                         *)
(***************************************************************************)
InitConn ==
    /\ conn = Connect("libsql://db.example", "token")
    /\ calls = [p \in Callers |-> IdleCall]
    /\ rpcCount = 0

InitNoCursor ==
    /\ cursors = <<>>
    /\ dest = <<>>
    /\ cret = NoReturn
    /\ nextCalls = <<>>
    /\ nextOks = <<>>

InitNoArgs ==
    /\ args = <<>>
    /\ params = EmptyParams
    /\ converted = FALSE

\* the connection: callers issue calls concurrently and iterate the cursors
Init == InitConn /\ InitNoCursor /\ InitNoArgs

Next ==
    \/ \E p \in Callers :
          \/ ExecContextCall(p)
          \/ ExecContextReturn(p)
          \/ QueryContextCall(p)
          \/ QueryContextReturn(p)
          \/ CancelContext(p)
          \/ Prepare(p)
          \/ Begin(p)
          \/ ConnClose(p)
    \/ \E c \in 1..MaxRpc :
          \/ RowsNext(c)
          \/ RowsColumns(c)
          \/ RowsClose(c)

Spec == Init /\ [][Next]_vars

\* the row cursor: one cursor, just returned by QueryContext over any result set
InitCursor ==
    /\ conn = Connect("libsql://db.example", "token")
    /\ calls = [p \in Callers |->
                   IF p = 1
                   THEN [IdleCall EXCEPT !.pc = "done", !.op = "QueryContext",
                                         !.query = "SELECT a FROM t",
                                         !.url = conn.url, !.jwt = conn.jwt,
                                         !.rpcs = 1, !.res = RowsV(1)]
                   ELSE IdleCall]
    /\ rpcCount = 1
    /\ InitNoArgs
    /\ \E rs \in ResultSets :
          /\ cursors = <<NewRows(rs)>>
          /\ dest = <<NewDest(rs)>>
    /\ cret = NoReturn
    /\ nextCalls = <<0>>
    /\ nextOks = <<0>>

NextCursor == RowsNext(1) \/ RowsColumns(1) \/ RowsClose(1)

SpecCursor == InitCursor /\ [][NextCursor]_vars

\* convertArgs on any argument list
InitArgs ==
    /\ InitConn
    /\ InitNoCursor
    /\ args \in ArgLists
    /\ params = EmptyParams
    /\ converted = FALSE

NextArgs == CallConvertArgs

SpecArgs == InitArgs /\ [][NextArgs]_vars


(***************************************************************************)
(* Properties of the row cursor (SpecCursor).                              *)
(***************************************************************************)
Min(x, y) == IF x <= y THEN x ELSE y
RowCount(c) == Len(cursors[c].result.Rows)
Cursors == 1..Len(cursors)

\* after n Next calls on a cursor over R rows: min(n, R) of them succeeded,
\* the cursor stands at row min(n, R), the last call (on the only cursor)
\* returned nil when n <= R and io.EOF when n > R, and the buffer holds the
\* row delivered last
C1_Counts ==
    \A c \in Cursors :
        LET n == nextCalls[c]
            R == RowCount(c)
        IN /\ nextOks[c] = Min(n, R)
           /\ cursors[c].currentRowIdx = nextOks[c]
           /\ (Len(cursors) = 1 /\ cret.op = "Next") =>
                 cret.err = IF n <= R THEN "nil" ELSE "io.EOF"
           /\ (n > 0 /\ R > 0) =>
                 dest[c] = [i \in 1..Len(dest[c]) |->
                               Coerce(cursors[c].result.Rows[Min(n, R)][i])]

\* a step never changes the rows of a cursor, and leaves a cursor that has
\* reached its end, and its buffer, as they are
C1_AtEndStep ==
    \A c \in Cursors :
        /\ cursors'[c].result = cursors[c].result
        /\ cursors[c].currentRowIdx = RowCount(c) =>
              (cursors'[c] = cursors[c] /\ dest'[c] = dest[c])

\* C1: over a result set with R rows the first R Next calls succeed and
\* deliver rows 0..R-1 in order, call R+1 returns io.EOF, and so does every
\* later call, without changing the cursor
C1_NextThenEOF == []C1_Counts /\ [][C1_AtEndStep]_vars

\* two rows delivered, then io.EOF twice
C1_Witness ==
    /\ RowCount(1) = 2
    /\ nextCalls[1] = 4
    /\ nextOks[1] = 2
    /\ cret = Returned("Next", "io.EOF", <<>>)

\* the cells of the row a cursor delivered last, as pairs of wire value and
\* value written to the buffer
Delivered ==
    UNION {{<<cursors[c].result.Rows[nextOks[c]][i], dest[c][i]>> :
               i \in 1..Len(dest[c])} : c \in {d \in Cursors : nextOks[d] > 0}}

\* v mod 1 of a finite float, in units of 1/Scale
Remainder(v) == IF v.neg THEN 0 - (v.n % Scale) ELSE v.n % Scale
\* a finite float cut off toward zero
Truncated(v) == IF v.neg THEN 0 - (v.n \div Scale) ELSE v.n \div Scale

C4_FloatKept ==
    \A cell \in Delivered :
        LET v == cell[1]
            d == cell[2]
        IN (v.k = "float64" /\ v.cls = "fin") =>
              IF v.n % Scale # 0 THEN d = v ELSE d = Int64V(Truncated(v))


(***************************************************************************)
(* Properties of convertArgs (SpecArgs).                                   *)
(***************************************************************************)
ArgIdx == 1..Len(args)
DistinctOrdinals ==
    \A i, j \in ArgIdx : i # j => args[i].Ordinal # args[j].Ordinal
\* the place of argument i when the ordinals are put in ascending order
Rank(i) == 1 + Cardinality({j \in ArgIdx : args[j].Ordinal < args[i].Ordinal})
HasName(nm) == nm # ""
\* the non-empty names of the arguments taken in the order p
NamesAlong(p) == SelectSeq([r \in ArgIdx |-> args[p[r]].Name], HasName)
ValuesAlong(p) == [r \in ArgIdx |-> args[p[r]].Value]

StableOrder ==
    CHOOSE p \in Permutations(ArgIdx) :
        \A i, j \in ArgIdx : i < j =>
            \/ args[p[i]].Ordinal < args[p[j]].Ordinal
            \/ (args[p[i]].Ordinal = args[p[j]].Ordinal /\ p[i] < p[j])

RpcOps == {"ExecContext", "QueryContext"}
HasReturned(p) == calls[p].pc = "done"

\* C2: a call whose context was cancelled before or during its RPC returns
\* context.Canceled and neither a result nor a cursor
C2_Cancelled ==
    \A p \in Callers :
        (HasReturned(p) /\ calls[p].op \in RpcOps /\ calls[p].ctx # "live") =>
            /\ calls[p].err = Canceled
            /\ calls[p].res = NilRes

\* an ExecContext cancelled before the call and a QueryContext cancelled in
\* flight have both returned
C2_Witness ==
    \E p, q \in Callers :
        /\ HasReturned(p) /\ calls[p].op = "ExecContext"
        /\ calls[p].ctx = "cancelled before the call"
        /\ HasReturned(q) /\ calls[q].op = "QueryContext"
        /\ calls[q].ctx = "cancelled in flight"

\* C6: a successful Exec of a statement that inserts one row reports
\* RowsAffected 1
C6_RowsAffected ==
    \A p \in Callers :
        (HasReturned(p) /\ calls[p].op = "ExecContext" /\ calls[p].err = NoError
            /\ RowsChangedBy(calls[p].query) = 1) =>
            calls[p].res.changes = 1

\* a returned Prepare or Begin gave an error, no object, and issued no RPC
C7_Returned ==
    \A p \in Callers :
        (HasReturned(p) /\ calls[p].op \in {"Prepare", "Begin"}) =>
            /\ calls[p].err # NoError
            /\ calls[p].res = NilRes
            /\ calls[p].rpcs = 0

\* the step in which a Prepare or Begin call is made reaches the remote
\* service with no RPC
C7_Step ==
    \A p \in Callers :
        (calls'[p] # calls[p] /\ calls'[p].op \in {"Prepare", "Begin"}) =>
            /\ calls'[p].pc = "done"
            /\ rpcCount' = rpcCount

C8_Returned ==
    \A p \in Callers :
        calls[p].op \in RpcOps =>
            /\ calls[p].rpcs = 1
            /\ (HasReturned(p) /\ calls[p].rpcErr # NoError) =>
                  (calls[p].err = calls[p].rpcErr /\ calls[p].res = NilRes)

\* the RPC count goes up by one in the step that starts an Exec or Query
\* call and in no other step
C8_Step ==
    \A p \in Callers :
        calls'[p] # calls[p] =>
            rpcCount' = IF calls'[p].pc = "rpc" /\ calls[p].pc # "rpc"
                        THEN rpcCount + 1 ELSE rpcCount

\* C8: one RPC per Exec or Query call; a failed RPC's error is returned
\* unchanged with no result, and there is no second RPC
C8_OneRpcNoRetry == []C8_Returned /\ [][C8_Step]_vars

\* an Exec failed with the transport's error and a Query with the
\* cancellation error
C8_Witness ==
    \E p, q \in Callers :
        /\ HasReturned(p) /\ calls[p].op = "ExecContext"
        /\ calls[p].rpcErr \in TransportErrors
        /\ HasReturned(q) /\ calls[q].op = "QueryContext"
        /\ calls[q].rpcErr = Canceled

\* C9: no step changes url or jwt of the connection, and a step changes a
\* cursor only if it is a Next call on that cursor
C9_Isolation ==
    [][/\ conn' = conn
       /\ \A c \in Cursors :
             cursors'[c] # cursors[c] =>
                /\ nextCalls'[c] = nextCalls[c] + 1
                /\ cursors'[c] = [cursors[c] EXCEPT !.currentRowIdx = @ + 1]
                /\ \A d \in Cursors \ {c} : cursors'[d] = cursors[d]]_vars

\* one cursor has been read to its end, another with a row is untouched,
\* and Close has been called on the connection
C9_Witness ==
    /\ Len(cursors) = 2
    /\ \E c, d \in Cursors :
          /\ c # d
          /\ RowCount(c) = 1 /\ cursors[c].currentRowIdx = 1
          /\ RowCount(d) = 1 /\ cursors[d].currentRowIdx = 0
    /\ \E p \in Callers : calls[p].op = "Close" /\ HasReturned(p)

====
